---- MODULE Spec2Model ----
(***************************************************************************)
(* Model of the SAM Recovery dashboard (src/app.py): the alert engine      *)
(* (safe_get_value, generate_alert), the zone classifier get_zone_status,  *)
(* the genetic annotations, load_data and its cache, navigation, the team  *)
(* overview's alert tally and the drawing of alerts; and of the workbook   *)
(* src/templateGenerator.py writes.                                        *)
(*                                                                         *)
(* Units.  Metric values are numbers read from the spreadsheet.  The model *)
(* keeps them as integers: heart-rate variability (ms), resting heart rate *)
(* (bpm), SpO2 (%), sleep-stage percentages and respiratory rate (/min)    *)
(* in whole units; temperature in tenths of a degree Celsius (36.5 = 365)  *)
(* and sleep duration in tenths of an hour (8 = 80, 7.0 = 70).  A time of  *)
(* day is the number of minutes since midnight (23:30 = 1410).  The        *)
(* relative comparisons (a - b) / b > 0.15 are evaluated exactly, by       *)
(* cross-multiplication; on whole-number inputs the floating-point         *)
(* division of the source gives the same verdict.                          *)
(***************************************************************************)
EXTENDS Integers, Sequences, FiniteSets, TLC

VARIABLES athlete_id, df, genetic_dict, flags, alert,
          value, metric_name, thresholds, status, insights,
          excel_file, cache, data, session_state, alert_counts, pending, rendering

vars == <<athlete_id, df, genetic_dict, flags, alert,
          value, metric_name, thresholds, status, insights,
          excel_file, cache, data, session_state, alert_counts, pending, rendering>>
\* The state of the Streamlit script around the engine: the workbook and the
\* st.cache_data entry of load_data, the session state, the team overview's
\* tally and what a page has drawn for an alert.
app_vars == <<excel_file, cache, data, session_state, alert_counts, pending, rendering>>
\* The arguments and result of a get_zone_status call, and the annotation list.
zone_vars == <<value, metric_name, thresholds, status>>

\* A cell of a frame, and any scalar read from one, is a sequence: <<v>> holds
\* the value v, and <<>> is NaN / None.
NA == <<>>

\* A text cell in a numeric column (the column is then read with dtype object
\* and the cell stays a str): a sequence of length two.
TEXT == <<"str", "n/a">>
IsText(cell) == Len(cell) = 2

\* pd.isna(value).
isna(cell) == cell = NA

\* ---------------------------------------------------------------- bounds
\* Longest history (number of dated rows of one athlete) explored.
MaxHist == 2

\* ------------------------------------------- constants of generate_alert
DEFAULT_HRV == 50
DEFAULT_RHR == 60
DEFAULT_TEMP == 365
DEFAULT_SPO2 == 97
DEFAULT_DEEP == 20
DEFAULT_REM == 20
DEFAULT_DURATION == 80
DEFAULT_RESP == 15
HRV_DROP_PCT == 15
RHR_RISE_PCT == 5
HRV_ABS == 40
RHR_ABS == 70
TEMP_HIGH == 370
SPO2_LOW == 94
DEEP_LOW == 17
REM_LOW == 16
SLEEP_SHORT == 70
RESP_HIGH == 17
REF_TIME == 1410
ERR_CHARS == 50

\* df.columns: every row of a frame has the same columns; an empty frame
\* (pd.DataFrame()) has none.
Columns(frame) == IF Len(frame) = 0 THEN {} ELSE DOMAIN frame[1]

\* safe_get_value answering 0, the default of its own signature, for a missing
\* column.
safe_get_value_zero_if_missing(frame, column, default) ==
    IF column \in Columns(frame)
    THEN LET cell == IF Len(frame) > 0 THEN frame[Len(frame)][column] ELSE default
         IN  IF ~isna(cell) THEN cell ELSE default
    ELSE <<0>>

\* safe_get_value(df, column, default): the last row's cell, or the default
\* when the column is missing, the frame is empty or the cell is NaN/None.
safe_get_value(frame, column, default) ==
    IF column \in Columns(frame)
    THEN LET cell == IF Len(frame) > 0 THEN frame[Len(frame)][column] ELSE default
         IN  IF ~isna(cell) THEN cell ELSE default
    ELSE default

\* The latest row's readings, defaults substituted (generate_alert, the block
\* "Get values safely").
hrv_night(frame) == safe_get_value(frame, "hrv_night", <<DEFAULT_HRV>>)[1]
resting_hr(frame) == safe_get_value(frame, "resting_hr", <<DEFAULT_RHR>>)[1]
temp_trend_c(frame) == safe_get_value(frame, "temp_trend_c", <<DEFAULT_TEMP>>)[1]
spo2_night(frame) == safe_get_value(frame, "spo2_night", <<DEFAULT_SPO2>>)[1]
deep_sleep_pct(frame) == safe_get_value(frame, "deep_sleep_pct", <<DEFAULT_DEEP>>)[1]
rem_sleep_pct(frame) == safe_get_value(frame, "rem_sleep_pct", <<DEFAULT_REM>>)[1]
sleep_duration_h(frame) == safe_get_value(frame, "sleep_duration_h", <<DEFAULT_DURATION>>)[1]
resp_rate_night(frame) == safe_get_value(frame, "resp_rate_night", <<DEFAULT_RESP>>)[1]
sleep_onset_time(frame) == safe_get_value(frame, "sleep_onset_time", NA)

\* prev = df.iloc[-2], read through a one-row frame pd.DataFrame([prev]).
prev_hrv(frame) == safe_get_value(<<frame[Len(frame) - 1]>>, "hrv_night", <<DEFAULT_HRV>>)[1]
prev_rhr(frame) == safe_get_value(<<frame[Len(frame) - 1]>>, "resting_hr", <<DEFAULT_RHR>>)[1]

\* The comparison made non-strict.
RatioAtLeast(num, den, pct) == num * 100 >= pct * den
\* num / den > pct / 100 for den > 0, evaluated exactly.
RatioAbove(num, den, pct) == num * 100 > pct * den

\* hrv_drop falling back to the absolute threshold when the previous value is
\* not positive.
hrv_drop_abs_fallback(frame) ==
    IF Len(frame) >= 2 /\ prev_hrv(frame) > 0
    THEN RatioAbove(prev_hrv(frame) - hrv_night(frame), prev_hrv(frame), HRV_DROP_PCT)
    ELSE hrv_night(frame) < HRV_ABS

\* hrv_drop with an inclusive absolute threshold.
hrv_drop_abs_inclusive(frame) ==
    IF Len(frame) >= 2
    THEN IF prev_hrv(frame) > 0
         THEN RatioAbove(prev_hrv(frame) - hrv_night(frame), prev_hrv(frame), HRV_DROP_PCT)
         ELSE FALSE
    ELSE hrv_night(frame) <= HRV_ABS

\* hrv_drop: relative to the previous row when there is one, else absolute.
hrv_drop(frame) ==
    IF Len(frame) >= 2
    THEN IF prev_hrv(frame) > 0
         THEN RatioAbove(prev_hrv(frame) - hrv_night(frame), prev_hrv(frame), HRV_DROP_PCT)
         ELSE FALSE
    ELSE hrv_night(frame) < HRV_ABS

\* rhr_rise: relative to the previous row when there is one, else absolute.
rhr_rise(frame) ==
    IF Len(frame) >= 2
    THEN IF prev_rhr(frame) > 0
         THEN RatioAbove(resting_hr(frame) - prev_rhr(frame), prev_rhr(frame), RHR_RISE_PCT)
         ELSE FALSE
    ELSE resting_hr(frame) > RHR_ABS

\* The point-in-time conditions ("Alert conditions").
\* temp_high with a strict comparison.
temp_high_strict(frame) == temp_trend_c(frame) > TEMP_HIGH
temp_high(frame) == temp_trend_c(frame) >= TEMP_HIGH
spo2_low(frame) == spo2_night(frame) <= SPO2_LOW
deep_low(frame) == deep_sleep_pct(frame) < DEEP_LOW
rem_low(frame) == rem_sleep_pct(frame) < REM_LOW
sleep_short(frame) == sleep_duration_h(frame) < SLEEP_SHORT
resp_high(frame) == resp_rate_night(frame) >= RESP_HIGH

\* sleep_late counting the reference time itself as late.
sleep_late_inclusive(frame) ==
    IF sleep_onset_time(frame) # NA THEN sleep_onset_time(frame)[1] >= REF_TIME ELSE FALSE

\* sleep_late counting the small hours after midnight as late too.
sleep_late_past_midnight(frame) ==
    IF sleep_onset_time(frame) # NA
    THEN sleep_onset_time(frame)[1] > REF_TIME \/ sleep_onset_time(frame)[1] < 4 * 60
    ELSE FALSE

\* sleep_late counting an unrecorded onset as late.
sleep_late_when_absent(frame) ==
    IF sleep_onset_time(frame) # NA THEN sleep_onset_time(frame)[1] > REF_TIME ELSE TRUE

\* sleep_late: "is not None" is tested first, so no time is compared to None.
sleep_late(frame) ==
    IF sleep_onset_time(frame) # NA THEN sleep_onset_time(frame)[1] > REF_TIME ELSE FALSE

\* The local flags of generate_alert at the point the rules are applied.
Flags(frame) ==
    [hrv_drop |-> hrv_drop(frame), rhr_rise |-> rhr_rise(frame),
     temp_high |-> temp_high(frame), spo2_low |-> spo2_low(frame),
     deep_low |-> deep_low(frame), rem_low |-> rem_low(frame),
     sleep_short |-> sleep_short(frame), resp_high |-> resp_high(frame),
     sleep_late |-> sleep_late(frame)]

\* strftime('%H:%M') of the onset time, or 'Late' when it is falsy.
onset_str(t) == IF t # NA THEN <<t[1] \div 60, t[1] % 60>> ELSE <<"Late">>

\* The conditions of the four rules, over the flags.
inflammation_rule(f) == f.hrv_drop /\ f.rhr_rise /\ f.temp_high /\ f.spo2_low
\* The circadian rule asking for a short night as well.
circadian_rule_short(f) == f.hrv_drop /\ f.deep_low /\ f.sleep_late /\ f.sleep_short
circadian_rule(f) == f.hrv_drop /\ f.deep_low /\ f.sleep_late
\* The nutrition rule without its temperature exclusion.
nutrition_rule_any_temp(f) == f.hrv_drop /\ f.rem_low
nutrition_rule(f) == f.hrv_drop /\ f.rem_low /\ ~f.temp_high
\* The airway rule firing on either flag.
airway_rule_either(f) == f.spo2_low \/ f.resp_high
airway_rule(f) == f.spo2_low /\ f.resp_high

\* apply_rules with the circadian rule tried before the inflammation rule.
apply_rules_circadian_first(frame, f) ==
    IF circadian_rule(f)
    THEN [type |-> "circadian",
          cause |-> <<deep_sleep_pct(frame), onset_str(sleep_onset_time(frame))>>]
    ELSE IF inflammation_rule(f)
    THEN [type |-> "inflammation",
          cause |-> <<hrv_night(frame), resting_hr(frame), temp_trend_c(frame),
                      spo2_night(frame)>>]
    ELSE IF nutrition_rule(f)
    THEN [type |-> "nutrition", cause |-> <<rem_sleep_pct(frame)>>]
    ELSE IF airway_rule(f)
    THEN [type |-> "airway", cause |-> <<spo2_night(frame), resp_rate_night(frame)>>]
    ELSE [type |-> "green", cause |-> <<>>]

\* apply_rules without its final else: the function falls off its end.
apply_rules_no_else(frame, f) ==
    IF inflammation_rule(f)
    THEN [type |-> "inflammation",
          cause |-> <<hrv_night(frame), resting_hr(frame), temp_trend_c(frame),
                      spo2_night(frame)>>]
    ELSE IF circadian_rule(f)
    THEN [type |-> "circadian",
          cause |-> <<deep_sleep_pct(frame), onset_str(sleep_onset_time(frame))>>]
    ELSE IF nutrition_rule(f)
    THEN [type |-> "nutrition", cause |-> <<rem_sleep_pct(frame)>>]
    ELSE IF airway_rule(f)
    THEN [type |-> "airway", cause |-> <<spo2_night(frame), resp_rate_night(frame)>>]
    ELSE [type |-> "None", cause |-> <<>>]

\* The if/elif chain "Apply alert rules": the alert's type and the values its
\* cause string embeds.
apply_rules(frame, f) ==
    IF inflammation_rule(f)
    THEN [type |-> "inflammation",
          cause |-> <<hrv_night(frame), resting_hr(frame), temp_trend_c(frame),
                      spo2_night(frame)>>]
    ELSE IF circadian_rule(f)
    THEN [type |-> "circadian",
          cause |-> <<deep_sleep_pct(frame), onset_str(sleep_onset_time(frame))>>]
    ELSE IF nutrition_rule(f)
    THEN [type |-> "nutrition", cause |-> <<rem_sleep_pct(frame)>>]
    ELSE IF airway_rule(f)
    THEN [type |-> "airway", cause |-> <<spo2_night(frame), resp_rate_night(frame)>>]
    ELSE [type |-> "green", cause |-> <<>>]

\* The first operation of the flag computation that raises, in the order the
\* statements run, or "none".  A number compared with or subtracted from a
\* str raises TypeError; the conditional expressions test prev > 0 first and
\* subtract only when it holds.
point_fault(frame) ==
    IF IsText(safe_get_value(frame, "temp_trend_c", <<DEFAULT_TEMP>>)) THEN "ge_str_float"
    ELSE IF IsText(safe_get_value(frame, "spo2_night", <<DEFAULT_SPO2>>)) THEN "le_str_int"
    ELSE IF IsText(safe_get_value(frame, "deep_sleep_pct", <<DEFAULT_DEEP>>)) THEN "lt_str_int"
    ELSE IF IsText(safe_get_value(frame, "rem_sleep_pct", <<DEFAULT_REM>>)) THEN "lt_str_int"
    ELSE IF IsText(safe_get_value(frame, "sleep_duration_h", <<DEFAULT_DURATION>>))
         THEN "lt_str_float"
    ELSE IF IsText(safe_get_value(frame, "resp_rate_night", <<DEFAULT_RESP>>)) THEN "ge_str_int"
    ELSE "none"

first_fault(frame) ==
    LET hrv == safe_get_value(frame, "hrv_night", <<DEFAULT_HRV>>)
        rhr == safe_get_value(frame, "resting_hr", <<DEFAULT_RHR>>)
    IN  IF Len(frame) >= 2
        THEN LET ph == safe_get_value(<<frame[Len(frame) - 1]>>, "hrv_night", <<DEFAULT_HRV>>)
                 pr == safe_get_value(<<frame[Len(frame) - 1]>>, "resting_hr", <<DEFAULT_RHR>>)
             IN  IF IsText(ph) THEN "gt_str_int"
                 ELSE IF ph[1] > 0 /\ IsText(hrv) THEN "sub_int_str"
                 ELSE IF IsText(pr) THEN "gt_str_int"
                 ELSE IF pr[1] > 0 /\ IsText(rhr) THEN "sub_str_int"
                 ELSE point_fault(frame)
        ELSE IF IsText(hrv) THEN "lt_str_int"
             ELSE IF IsText(rhr) THEN "gt_str_int"
             ELSE point_fault(frame)

\* str(e) of each fault, as the sequence of its character positions:
\*   gt/lt_str_int  '>' not supported between instances of 'str' and 'int'   (54)
\*   le/ge_str_int  '<=' not supported between instances of 'str' and 'int'  (55)
\*   lt_str_float   '<' not supported between instances of 'str' and 'float' (56)
\*   ge_str_float   '>=' not supported between instances of 'str' and 'float'(57)
\*   sub_int_str    unsupported operand type(s) for -: 'int' and 'str'       (50)
\*   sub_str_int    unsupported operand type(s) for -: 'str' and 'int'       (50)
fault_description(kind) ==
    LET n == [gt_str_int |-> 54, lt_str_int |-> 54, le_str_int |-> 55, ge_str_int |-> 55,
              lt_str_float |-> 56, ge_str_float |-> 57, sub_int_str |-> 50,
              sub_str_int |-> 50][kind]
    IN  [i \in 1 .. n |-> i]

\* The except clause keeping the whole description.
error_alert_untruncated(description) == [type |-> "error", cause |-> description]

\* The except clause: the alert embedding str(e)[:50].
error_alert(description) ==
    [type |-> "error",
     cause |-> SubSeq(description, 1,
                      IF Len(description) < ERR_CHARS THEN Len(description) ELSE ERR_CHARS)]

\* genetic_dict is a dict: here the sequence of its (gene, genotype) items in
\* insertion order, no gene twice.  genetic_dict.get(gene), "None" for None.
dict_get(gdict, gene) ==
    IF \E i \in DOMAIN gdict : gdict[i][1] = gene
    THEN gdict[CHOOSE i \in DOMAIN gdict : gdict[i][1] = gene][2]
    ELSE "None"

\* generate_alert letting the PER3 genotype excuse a late sleep onset.
generate_alert_reads_genotype(aid, frame, gdict) ==
    IF Len(frame) = 0
    THEN [type |-> "no_data", cause |-> <<>>]
    ELSE IF first_fault(frame) # "none"
    THEN error_alert(fault_description(first_fault(frame)))
    ELSE IF dict_get(gdict, "PER3") = "long"
    THEN apply_rules(frame, [Flags(frame) EXCEPT !.sleep_late = FALSE])
    ELSE apply_rules(frame, Flags(frame))

\* generate_alert without the empty-frame return: df.iloc[-1] raises on an
\* empty frame and the except clause reports it.
generate_alert_no_empty_check(aid, frame, gdict) ==
    IF Len(frame) = 0
    THEN [type |-> "error", cause |-> <<"IndexError">>]
    ELSE apply_rules(frame, Flags(frame))

\* generate_alert(athlete_id, df, genetic_dict).
generate_alert(aid, frame, gdict) ==
    IF Len(frame) = 0
    THEN [type |-> "no_data", cause |-> <<>>]
    ELSE IF first_fault(frame) # "none"
    THEN error_alert(fault_description(first_fault(frame)))
    ELSE apply_rules(frame, Flags(frame))

\* ------------------------------------------------------------ the inputs
\* Readings of the latest row.  An absent reading (NA) takes its default, which
\* lies on the unflagged side of every threshold; the other values sit on the
\* thresholds.  Against a previous hrv_night of 40, 34 is a drop of exactly 15%
\* and 33 a larger one; against a previous resting_hr of 60 (the default), 63
\* is a rise of exactly 5%, and 71 is above 70 but less than 5% above 70.
HrvValues == {NA, <<33>>, <<34>>, <<40>>}
RhrValues == {NA, <<63>>, <<71>>}
TempValues == {NA, <<370>>}
Spo2Values == {NA, <<94>>}
DeepValues == {NA, <<16>>, <<17>>}
RemValues == {NA, <<15>>, <<16>>}
DurationValues == {NA, <<69>>}
RespValues == {NA, <<17>>}
OnsetValues == {NA, <<15>>, <<1410>>, <<1411>>}

LatestRows ==
    [hrv_night : HrvValues, resting_hr : RhrValues, temp_trend_c : TempValues,
     spo2_night : Spo2Values, deep_sleep_pct : DeepValues, rem_sleep_pct : RemValues,
     sleep_duration_h : DurationValues, resp_rate_night : RespValues,
     sleep_onset_time : OnsetValues]

\* Earlier rows: only their hrv_night and resting_hr are ever read.
EarlierRows ==
    [hrv_night : {NA, <<-5>>, <<0>>, <<40>>}, resting_hr : {NA, <<0>>, <<70>>},
     temp_trend_c : {<<366>>}, spo2_night : {<<98>>}, deep_sleep_pct : {<<21>>},
     rem_sleep_pct : {<<22>>}, sleep_duration_h : {<<78>>}, resp_rate_night : {<<14>>},
     sleep_onset_time : {<<1365>>}]

RECURSIVE EarlierSeqs(_)
EarlierSeqs(n) ==
    IF n = 0 THEN {<<>>}
    ELSE {Append(h, r) : h \in EarlierSeqs(n - 1), r \in EarlierRows}

\* The athletes: an id and the genotype map built from genetic_profiles (empty
\* when the athlete has no genetic rows).
NoGenes == <<>>
Athletes ==
    {[athlete_id |-> "ATH001", genetic_dict |-> NoGenes],
     [athlete_id |-> "ATH002",
      genetic_dict |-> <<<<"PER3", "long">>, <<"CLOCK", "AA">>>>]}

NoFlags == <<>>
NoAlert == [type |-> "none", cause |-> <<>>]
NoStatus == "none"
NoInsights == [done |-> FALSE, list |-> <<>>]

\* No get_zone_status call and no annotation is under way.
ZoneIdle == value = NA /\ metric_name = <<>> /\ thresholds = <<>> /\ status = NoStatus
GenesIdle == insights = NoInsights
\* st.session_state as first set, and nothing loaded, tallied or drawn.
InitialSession == [page |-> "home", athlete_id |-> <<>>]
AppIdle ==
    /\ excel_file = <<>> /\ cache = <<>> /\ data = <<>>
    /\ session_state = InitialSession
    /\ alert_counts = <<>> /\ pending = <<>> /\ rendering = <<>>

\* The arguments of a call: an athlete, and the athlete's date-sorted frame,
\* empty or of up to MaxHist rows.
Init ==
    /\ AppIdle
    /\ \E a \in Athletes : athlete_id = a.athlete_id /\ genetic_dict = a.genetic_dict
    /\ \/ df = <<>>
       \/ \E n \in 0 .. (MaxHist - 1) : \E h \in EarlierSeqs(n) : \E r \in LatestRows :
             df = Append(h, r)
    /\ flags = NoFlags
    /\ alert = NoAlert
    /\ ZoneIdle /\ GenesIdle

\* One call alert = generate_alert(athlete_id, df, genetic_dict); flags keeps
\* the call's local flags (none are kept for an empty frame or a failed call).
GenerateAlert ==
    /\ alert = NoAlert
    /\ alert' = generate_alert(athlete_id, df, genetic_dict)
    /\ flags' = IF Len(df) = 0 \/ first_fault(df) # "none" THEN NoFlags ELSE Flags(df)
    /\ UNCHANGED <<athlete_id, df, genetic_dict, zone_vars, insights,
                   app_vars>>

Next == GenerateAlert

Spec == Init /\ [][Next]_vars

\* ----------------------------------------- frames with a column missing
\* The metric columns generate_alert reads.
MetricColumns ==
    {"hrv_night", "resting_hr", "temp_trend_c", "spo2_night", "deep_sleep_pct",
     "rem_sleep_pct", "sleep_duration_h", "resp_rate_night", "sleep_onset_time"}

\* The frame without the column c (a sheet that has no such column).
DropColumn(frame, c) ==
    [i \in 1 .. Len(frame) |-> [k \in (DOMAIN frame[i]) \ {c} |-> frame[i][k]]]

\* A few earlier rows for the frames below.
EarlierRowsFew ==
    [hrv_night : {NA, <<40>>}, resting_hr : {NA, <<70>>},
     temp_trend_c : {<<366>>}, spo2_night : {<<98>>}, deep_sleep_pct : {<<21>>},
     rem_sleep_pct : {<<22>>}, sleep_duration_h : {<<78>>}, resp_rate_night : {<<14>>},
     sleep_onset_time : {<<1365>>}]

RECURSIVE SeqsOf(_, _)
SeqsOf(rows, n) ==
    IF n = 0 THEN {<<>>} ELSE {Append(h, r) : h \in SeqsOf(rows, n - 1), r \in rows}

\* A call on a non-empty frame of a sheet that lacks at most one metric column.
InitMissing ==
    /\ AppIdle
    /\ athlete_id = "ATH001" /\ genetic_dict = NoGenes
    /\ \E c \in MetricColumns \cup {"none"} :
       \E n \in 0 .. (MaxHist - 1) : \E h \in SeqsOf(EarlierRowsFew, n) : \E r \in LatestRows :
             df = DropColumn(Append(h, r), c)
    /\ flags = NoFlags
    /\ alert = NoAlert
    /\ ZoneIdle /\ GenesIdle

SpecMissing == InitMissing /\ [][Next]_vars

\* ------------------------------------------- frames holding text cells
FaultLatestRows ==
    [hrv_night : {NA, <<33>>, TEXT}, resting_hr : {<<71>>, TEXT},
     temp_trend_c : {<<370>>, TEXT}, spo2_night : {<<94>>, TEXT},
     deep_sleep_pct : {<<16>>, TEXT}, rem_sleep_pct : {<<15>>, TEXT},
     sleep_duration_h : {NA, TEXT}, resp_rate_night : {<<17>>, TEXT},
     sleep_onset_time : {<<1411>>}]

FaultEarlierRows ==
    [hrv_night : {<<0>>, <<40>>, TEXT}, resting_hr : {<<70>>, TEXT},
     temp_trend_c : {<<366>>}, spo2_night : {<<98>>}, deep_sleep_pct : {<<21>>},
     rem_sleep_pct : {<<22>>}, sleep_duration_h : {<<78>>}, resp_rate_night : {<<14>>},
     sleep_onset_time : {<<1365>>}]

\* A call on a non-empty frame whose numeric columns may hold text cells.
InitFault ==
    /\ AppIdle
    /\ athlete_id = "ATH001" /\ genetic_dict = NoGenes
    /\ \E n \in 0 .. (MaxHist - 1) : \E h \in SeqsOf(FaultEarlierRows, n) :
       \E r \in FaultLatestRows : df = Append(h, r)
    /\ flags = NoFlags
    /\ alert = NoAlert
    /\ ZoneIdle /\ GenesIdle

SpecFault == InitFault /\ [][Next]_vars

\* ------------------------------------------------------ get_zone_status
\* float('inf') / float('-inf'), the defaults row.get gives for a primary
\* bound whose column the table lacks: a sequence of length three.
POS_INF == <<"float", "inf", "+">>
NEG_INF == <<"float", "inf", "-">>
IsInf(cell) == Len(cell) = 3

\* row.get(column, default).
row_get(row, column, default) == IF column \in DOMAIN row THEN row[column] ELSE default

\* not (pd.isna(low) or pd.isna(high)) and low <= value <= high.  With low =
\* inf or high = -inf the chained comparison is false for every number.
in_range(low, high, v) ==
    /\ ~(isna(low) \/ isna(high))
    /\ ~IsInf(low) /\ ~IsInf(high)
    /\ low[1] <= v[1] /\ v[1] <= high[1]

\* 'low2' in row and pd.notna(row['low2']): the secondary pair is appended.
has_secondary(row, low2) == low2 \in DOMAIN row /\ ~isna(row[low2])

\* row['high2'] raises KeyError when the table has no such column.
secondary_raises(row, low2, high2) == has_secondary(row, low2) /\ high2 \notin DOMAIN row

\* The list of (low, high) pairs of one band.
band_ranges(row, low, high, low2, high2) ==
    <<<<row_get(row, low, POS_INF), row_get(row, high, NEG_INF)>>>>
        \o (IF has_secondary(row, low2) THEN <<<<row[low2], row[high2]>>>> ELSE <<>>)

\* The loop over a band's pairs, returning at the first match.
any_in_range(ranges, v) == \E i \in DOMAIN ranges : in_range(ranges[i][1], ranges[i][2], v)

\* get_zone_status looking the metric up before testing the value.
get_zone_status_config_first(v, name, table) ==
    LET matching_rows == SelectSeq(table, LAMBDA r : r.metric_name = name)
    IN  IF Len(matching_rows) = 0 THEN "No Config"
        ELSE IF isna(v) THEN "No Data"
        ELSE "Unknown"

\* get_zone_status(value, metric_name, thresholds).
get_zone_status(v, name, table) ==
    IF isna(v) THEN "No Data"
    ELSE LET matching_rows == SelectSeq(table, LAMBDA r : r.metric_name = name)
         IN  IF Len(matching_rows) = 0 THEN "No Config"
             ELSE LET row == matching_rows[1]
                  IN  IF secondary_raises(row, "red_low2", "red_high2") THEN "Error"
                      ELSE IF any_in_range(band_ranges(row, "red_low", "red_high",
                                                       "red_low2", "red_high2"), v)
                      THEN "Red"
                      ELSE IF secondary_raises(row, "yellow_low2", "yellow_high2") THEN "Error"
                      ELSE IF any_in_range(band_ranges(row, "yellow_low", "yellow_high",
                                                       "yellow_low2", "yellow_high2"), v)
                      THEN "Yellow"
                      ELSE IF in_range(row_get(row, "green_low", POS_INF),
                                       row_get(row, "green_high", NEG_INF), v)
                      THEN "Green"
                      ELSE "Unknown"

\* A row of the sam_metrics_config sheet: the metric's name, spelt out
\* character by character, and the ten bounds (NaN where the sheet has no
\* entry).  The unit column is never read and is left out.
ConfigRow(name, b) ==
    [metric_name |-> name, green_low |-> b[1], green_high |-> b[2],
     yellow_low |-> b[3], yellow_high |-> b[4], red_low |-> b[5], red_high |-> b[6],
     yellow_low2 |-> b[7], yellow_high2 |-> b[8], red_low2 |-> b[9], red_high2 |-> b[10]]

\* The sheet the template generator writes, read back (sleep_duration_h and
\* temp_trend_c in tenths).
metrics_config ==
  <<
    ConfigRow(<<"r", "e", "s", "t", "i", "n", "g", "_", "h", "r">>,
              <<<<42>>, <<54>>, <<55>>, <<59>>, <<60>>, <<100>>, NA, NA, NA, NA>>),
    ConfigRow(<<"a", "v", "g", "_", "h", "r", "_", "d", "a", "y">>,
              <<<<50>>, <<68>>, <<69>>, <<74>>, <<75>>, <<120>>, NA, NA, NA, NA>>),
    ConfigRow(<<"s", "p", "o", "2", "_", "n", "i", "g", "h", "t">>,
              <<<<97>>, <<100>>, <<95>>, <<96>>, <<0>>, <<94>>, NA, NA, NA, NA>>),
    ConfigRow(<<"h", "r", "v", "_", "n", "i", "g", "h", "t">>,
              <<<<90>>, <<200>>, <<70>>, <<89>>, <<0>>, <<69>>, NA, NA, NA, NA>>),
    ConfigRow(<<"d", "e", "e", "p", "_", "s", "l", "e", "e", "p", "_", "p", "c", "t">>,
              <<<<22>>, <<100>>, <<17>>, <<21>>, <<0>>, <<16>>, NA, NA, NA, NA>>),
    ConfigRow(<<"r", "e", "m", "_", "s", "l", "e", "e", "p", "_", "p", "c", "t">>,
              <<<<20>>, <<25>>, <<16>>, <<19>>, <<0>>, <<15>>, <<26>>, <<30>>, <<31>>, <<100>>>>),
    ConfigRow(<<"l", "i", "g", "h", "t", "_", "s", "l", "e", "e", "p", "_", "p", "c", "t">>,
              <<<<35>>, <<45>>, <<46>>, <<50>>, <<51>>, <<100>>, NA, NA, NA, NA>>),
    ConfigRow(<<"s", "l", "e", "e", "p", "_", "d", "u", "r", "a", "t", "i", "o", "n", "_", "h">>,
              <<<<80>>, <<92>>, <<70>>, <<79>>, <<0>>, <<69>>, NA, NA, NA, NA>>),
    ConfigRow(<<"r", "e", "s", "p", "_", "r", "a", "t", "e", "_", "n", "i", "g", "h", "t">>,
              <<<<10>>, <<14>>, <<15>>, <<16>>, <<17>>, <<100>>, NA, NA, NA, NA>>),
    ConfigRow(<<"t", "e", "m", "p", "_", "t", "r", "e", "n", "d", "_", "c">>,
              <<<<364>>, <<369>>, <<370>>, <<373>>, <<374>>, <<420>>, <<363>>, <<363>>, <<0>>, <<362>>>>),
    ConfigRow(<<"t", "r", "a", "i", "n", "i", "n", "g", "_", "l", "o", "a", "d", "_", "p", "c", "t">>,
              <<<<100>>, <<100>>, <<85>>, <<99>>, <<0>>, <<70>>, NA, NA, NA, NA>>)
  >>

\* ---------------------------------------------- inputs of get_zone_status
NameM == <<"M">>
NameX == <<"X">>
ZoneValues == {NA, <<0>>, <<1>>, <<2>>, <<3>>}
\* Bound pairs of a primary and of a secondary range: absent, half absent,
\* and overlapping intervals.
PrimaryPairs == {<<NA, NA>>, <<<<1>>, NA>>, <<<<1>>, <<2>>>>, <<<<2>>, <<3>>>>}
SecondaryPairs == {<<NA, NA>>, <<<<1>>, NA>>, <<NA, <<3>>>>, <<<<3>>, <<3>>>>}
\* Columns a sheet may lack.
MissingColumns ==
    {{}, {"yellow_low2", "yellow_high2", "red_low2", "red_high2"}, {"red_high2"},
     {"yellow_high2"}, {"green_low"}}
WithoutColumns(row, missing) == [k \in (DOMAIN row) \ missing |-> row[k]]

\* No generate_alert call is under way.
AlertIdle ==
    /\ athlete_id = "" /\ df = <<>> /\ genetic_dict = <<>>
    /\ flags = NoFlags /\ alert = NoAlert

\* The arguments of a get_zone_status call: a one-row table for the metric M,
\* or the template's table asked about REM sleep.
InitZone ==
    /\ AppIdle
    /\ AlertIdle /\ GenesIdle
    /\ status = NoStatus
    /\ \/ /\ value \in ZoneValues
          /\ metric_name \in {NameM, NameX}
          /\ \E g \in PrimaryPairs, y \in PrimaryPairs, r \in PrimaryPairs,
                y2 \in SecondaryPairs, r2 \in SecondaryPairs, missing \in MissingColumns :
                thresholds = <<WithoutColumns(
                    ConfigRow(NameM, <<g[1], g[2], y[1], y[2], r[1], r[2],
                                       y2[1], y2[2], r2[1], r2[2]>>), missing)>>
       \/ /\ value \in {NA, <<15>>, <<16>>, <<19>>, <<20>>, <<25>>, <<26>>, <<28>>, <<30>>,
                        <<31>>}
          /\ metric_name \in {metrics_config[i].metric_name : i \in DOMAIN metrics_config}
          /\ thresholds = metrics_config

\* One call status = get_zone_status(value, metric_name, thresholds).
GetZoneStatus ==
    /\ status = NoStatus
    /\ status' = get_zone_status(value, metric_name, thresholds)
    /\ UNCHANGED <<athlete_id, df, genetic_dict, flags, alert, value, metric_name,
                   thresholds, insights,
                   app_vars>>

NextZone == GetZoneStatus

SpecZone == InitZone /\ [][NextZone]_vars

\* ------------------------------------------- the dashboard's metric cards
\* str.replace and str.title on a string spelt out character by character.
ascii_lowercase == <<"a", "b", "c", "d", "e", "f", "g", "h", "i", "j", "k", "l", "m",
    "n", "o", "p", "q", "r", "s", "t", "u", "v", "w", "x", "y", "z">>
ascii_uppercase == <<"A", "B", "C", "D", "E", "F", "G", "H", "I", "J", "K", "L", "M",
    "N", "O", "P", "Q", "R", "S", "T", "U", "V", "W", "X", "Y", "Z">>
IsLetter(c) == \E i \in 1..26 : c = ascii_lowercase[i] \/ c = ascii_uppercase[i]
upper(c) ==
    IF \E i \in 1..26 : c = ascii_lowercase[i]
    THEN ascii_uppercase[CHOOSE i \in 1..26 : c = ascii_lowercase[i]]
    ELSE c
lower(c) ==
    IF \E i \in 1..26 : c = ascii_uppercase[i]
    THEN ascii_lowercase[CHOOSE i \in 1..26 : c = ascii_uppercase[i]]
    ELSE c
\* key.replace("_", " ")
replace_underscores(name) == [i \in DOMAIN name |-> IF name[i] = "_" THEN " " ELSE name[i]]
\* str.title(): a letter that follows a non-letter (or starts the string) is
\* upper-cased, every other letter is lower-cased.
title(name) ==
    [i \in DOMAIN name |->
        IF i = 1 \/ ~IsLetter(name[i - 1]) THEN upper(name[i]) ELSE lower(name[i])]

\* metric_name_formatted = key.replace("_", " ").title()
metric_name_formatted(chars) == title(replace_underscores(chars))

\* The (key, unit) entries of metrics_map: the key as a column name and the
\* same key spelt out.
metrics_map ==
    {[key |-> "hrv_night", chars |-> <<"h", "r", "v", "_", "n", "i", "g", "h", "t">>],
     [key |-> "resting_hr", chars |-> <<"r", "e", "s", "t", "i", "n", "g", "_", "h", "r">>],
     [key |-> "spo2_night", chars |-> <<"s", "p", "o", "2", "_", "n", "i", "g", "h", "t">>],
     [key |-> "resp_rate_night", chars |-> <<"r", "e", "s", "p", "_", "r", "a", "t", "e", "_", "n", "i", "g", "h", "t">>],
     [key |-> "deep_sleep_pct", chars |-> <<"d", "e", "e", "p", "_", "s", "l", "e", "e", "p", "_", "p", "c", "t">>],
     [key |-> "rem_sleep_pct", chars |-> <<"r", "e", "m", "_", "s", "l", "e", "e", "p", "_", "p", "c", "t">>],
     [key |-> "sleep_duration_h", chars |-> <<"s", "l", "e", "e", "p", "_", "d", "u", "r", "a", "t", "i", "o", "n", "_", "h">>],
     [key |-> "temp_trend_c", chars |-> <<"t", "e", "m", "p", "_", "t", "r", "e", "n", "d", "_", "c">>],
     [key |-> "training_load_pct", chars |-> <<"t", "r", "a", "i", "n", "i", "n", "g", "_", "l", "o", "a", "d", "_", "p", "c", "t">>]}

\* A sheet whose metric names are written in the form the dashboard asks for.
TitledConfig ==
    [i \in DOMAIN metrics_config |->
        [metrics_config[i] EXCEPT !.metric_name = metric_name_formatted(@)]]

\* The athlete's latest observation on the dashboard (no training_load_pct
\* column).
DashboardRows ==
    [hrv_night : {NA, <<60>>, <<95>>}, resting_hr : {<<50>>, <<57>>},
     temp_trend_c : {<<362>>, <<365>>}, spo2_night : {<<94>>, <<98>>},
     deep_sleep_pct : {<<25>>}, rem_sleep_pct : {<<28>>, <<31>>},
     sleep_duration_h : {<<80>>}, resp_rate_night : {<<12>>},
     sleep_onset_time : {<<1380>>}]

InitDashboard ==
    /\ AppIdle
    /\ athlete_id = "ATH001" /\ genetic_dict = <<>>
    /\ \E latest \in DashboardRows : df = <<latest>>
    /\ flags = NoFlags /\ alert = NoAlert /\ GenesIdle
    /\ value = NA /\ metric_name = <<>> /\ status = NoStatus
    /\ thresholds \in {metrics_config, TitledConfig}

\* One pass of the loop over metrics_map.items(): the card of one metric.
RenderMetric ==
    /\ status = NoStatus
    /\ \E m \in metrics_map :
          LET latest == df[Len(df)]
              val == safe_get_value(<<latest>>, m.key, <<0>>)
          IN  /\ value' = val
              /\ metric_name' = metric_name_formatted(m.chars)
              /\ status' = get_zone_status(val, metric_name_formatted(m.chars), thresholds)
    /\ UNCHANGED <<athlete_id, df, genetic_dict, flags, alert, thresholds, insights,
                   app_vars>>

NextDashboard == RenderMetric

SpecDashboard == InitDashboard /\ [][NextDashboard]_vars

\* ------------------------------------------------------ genetic_insights
\* One entry of genetic_insights (the recommendation text is left out).
Insight(gene, trait) == [gene |-> gene, trait |-> trait]

per3_insight(gdict) ==
    IF dict_get(gdict, "PER3") = "long"
    THEN <<Insight("PER3 (Long variant)", "Natural night owl tendency")>>
    ELSE IF dict_get(gdict, "PER3") = "short"
    THEN <<Insight("PER3 (Short variant)", "Natural early bird tendency")>>
    ELSE <<>>

clock_insight(gdict) ==
    IF dict_get(gdict, "CLOCK") = "AA"
    THEN <<Insight("CLOCK (AA genotype)", "Enhanced circadian sensitivity")>>
    ELSE <<>>

actn3_insight(gdict) ==
    IF dict_get(gdict, "ACTN3") = "XX"
    THEN <<Insight("ACTN3 (XX genotype)", "Enhanced endurance capacity")>>
    ELSE IF dict_get(gdict, "ACTN3") = "RR"
    THEN <<Insight("ACTN3 (RR genotype)", "Enhanced power/sprint capacity")>>
    ELSE <<>>

\* The insights of one item of the map.
item_insight(item) ==
    per3_insight(<<item>>) \o clock_insight(<<item>>) \o actn3_insight(<<item>>)

\* genetic_insights built by walking the map's items.
RECURSIVE genetic_insights_by_item(_)
genetic_insights_by_item(gdict) ==
    IF Len(gdict) = 0 THEN <<>>
    ELSE item_insight(Head(gdict)) \o genetic_insights_by_item(Tail(gdict))

\* The list genetic_insights (empty where `if genetic_dict:` fails and no
\* list is built).
genetic_insights(gdict) ==
    IF Len(gdict) = 0 THEN <<>>
    ELSE per3_insight(gdict) \o clock_insight(gdict) \o actn3_insight(gdict)

\* Genes of a genetic_profiles sheet and the genotypes they may carry.
Genes == {"PER3", "CLOCK", "ACTN3", "COMT"}
GenotypesOf(gene) ==
    IF gene = "PER3" THEN {"long", "short", "mixed"}
    ELSE IF gene = "CLOCK" THEN {"AA", "AG"}
    ELSE IF gene = "ACTN3" THEN {"XX", "RR", "RX"}
    ELSE {"GG"}
GenesIn(gdict) == {gdict[i][1] : i \in DOMAIN gdict}
\* The dicts of n items, in every insertion order.
RECURSIVE GeneticDicts(_)
GeneticDicts(n) ==
    IF n = 0 THEN {<<>>}
    ELSE UNION {UNION {{Append(d, <<g, t>>) : t \in GenotypesOf(g)} : g \in Genes \ GenesIn(d)}
                : d \in GeneticDicts(n - 1)}

InitGenes ==
    /\ AppIdle
    /\ athlete_id = "ATH001" /\ df = <<>>
    /\ \E n \in 0..Cardinality(Genes) : genetic_dict \in GeneticDicts(n)
    /\ flags = NoFlags /\ alert = NoAlert
    /\ ZoneIdle /\ insights = NoInsights

\* The Genotype-Specific Recommendations block of the athlete page.
AnnotateGenes ==
    /\ insights = NoInsights
    /\ insights' = [done |-> TRUE, list |-> genetic_insights(genetic_dict)]
    /\ UNCHANGED <<athlete_id, df, genetic_dict, flags, alert, zone_vars,
                   app_vars>>

NextGenes == AnnotateGenes

SpecGenes == InitGenes /\ [][NextGenes]_vars

\* ---------------------------------------------------- load_data and its cache
\* Versions of a sheet's content, told apart by a number.
MaxVersion == 3
\* What the workbook holds: the biometric_daily and sam_metrics_config sheets
\* in some version (the other sheets move with them).
Contents == [biometrics : 1..MaxVersion, config : 1..MaxVersion]
\* EXCEL_FILE on disk: <<>> when there is no such file, else the workbook,
\* whose sheets and required columns are all there (readable) or not.
Workbooks == {<<>>} \cup {<<[content |-> c, readable |-> b]>> : c \in Contents, b \in BOOLEAN}

\* The body of load_data: the content read from the file, or <<>> when the
\* body ends in st.stop() (file missing, sheet or required column missing).
load_data_body(file) ==
    IF file = <<>> THEN <<>>
    ELSE IF ~file[1].readable THEN <<>>
    ELSE <<file[1].content>>

\* load_data under @st.cache_data: the function takes no argument, so its one
\* cache entry, once made, answers every later call; the body runs only while
\* there is no entry, and only a returned value is stored.
load_data(entry, file) ==
    IF entry # <<>>
    THEN [returned |-> entry, cache |-> entry]
    ELSE [returned |-> load_data_body(file),
          cache |-> IF load_data_body(file) # <<>> THEN load_data_body(file) ELSE entry]

InitCache ==
    /\ AlertIdle /\ flags = NoFlags /\ alert = NoAlert /\ ZoneIdle /\ GenesIdle
    /\ excel_file \in Workbooks
    /\ cache = <<>> /\ data = <<>>
    /\ session_state = InitialSession
    /\ alert_counts = <<>> /\ pending = <<>> /\ rendering = <<>>

\* A rerun starts the script from the top: the previous run's data is gone.
StartRun ==
    /\ data # <<>>
    /\ data' = <<>>
    /\ UNCHANGED <<athlete_id, df, genetic_dict, flags, alert, zone_vars, insights,
                   excel_file, cache, session_state, alert_counts, pending, rendering>>

\* The run reaches `... = load_data()` (a run that st.stop() ended leaves no
\* data, and the next run calls load_data again).
LoadData ==
    /\ data = <<>>
    /\ data' = load_data(cache, excel_file).returned
    /\ cache' = load_data(cache, excel_file).cache
    /\ UNCHANGED <<athlete_id, df, genetic_dict, flags, alert, zone_vars, insights,
                   excel_file, session_state, alert_counts, pending, rendering>>

\* The workbook is replaced, edited or removed on disk.
ChangeSource ==
    /\ excel_file' \in Workbooks \ {excel_file}
    /\ UNCHANGED <<athlete_id, df, genetic_dict, flags, alert, zone_vars, insights,
                   cache, data, session_state, alert_counts, pending, rendering>>

NextCache == StartRun \/ LoadData \/ ChangeSource

SpecCache == InitCache /\ [][NextCache]_vars

\* ------------------------------------------------ how pages draw an alert
RiskTypes == {"inflammation", "airway", "circadian", "nutrition"}

\* color_map.get(alert["type"], "#6C757D") of the team overview's card.
color_map(type) ==
    IF type \in {"inflammation", "airway"} THEN "#E74C3C"
    ELSE IF type \in {"circadian", "nutrition"} THEN "#F39C12"
    ELSE IF type = "green" THEN "#28A745"
    ELSE "#6C757D"

\* icon_map.get(alert["type"], white circle).
icon_map(type) ==
    IF type \in {"inflammation", "airway"} THEN "red circle"
    ELSE IF type \in {"circadian", "nutrition"} THEN "yellow circle"
    ELSE IF type = "green" THEN "green circle"
    ELSE "white circle"

\* The call the athlete dashboard draws the alert with, in the banner and
\* again under Current Status Analysis: st.error, st.warning or st.success.
banner_call(type) ==
    IF type \in {"inflammation", "airway"} THEN "st.error"
    ELSE IF type \in {"circadian", "nutrition"} THEN "st.warning"
    ELSE "st.success"

\* What a place of the application draws for an alert of the given type.
Drawn(place, type) ==
    IF place = "team card"
    THEN [place |-> place, style |-> color_map(type), icon |-> icon_map(type)]
    ELSE [place |-> place, style |-> banner_call(type), icon |-> "none"]

\* The card of one athlete in the team overview.
RenderTeamCard ==
    /\ alert # NoAlert /\ rendering = <<>>
    /\ rendering' = Drawn("team card", alert.type)
    /\ UNCHANGED <<athlete_id, df, genetic_dict, flags, alert, zone_vars, insights,
                   excel_file, cache, data, session_state, alert_counts, pending>>

\* The banner of the athlete dashboard; the page stops before it when the
\* athlete has no rows (df.empty).
RenderBanner ==
    /\ alert # NoAlert /\ rendering = <<>>
    /\ Len(df) > 0
    /\ rendering' = Drawn("banner", alert.type)
    /\ UNCHANGED <<athlete_id, df, genetic_dict, flags, alert, zone_vars, insights,
                   excel_file, cache, data, session_state, alert_counts, pending>>

\* Current Status Analysis in the Predictive Insights tab.
RenderStatusAnalysis ==
    /\ alert # NoAlert /\ rendering = <<>>
    /\ Len(df) > 0
    /\ rendering' = Drawn("status analysis", alert.type)
    /\ UNCHANGED <<athlete_id, df, genetic_dict, flags, alert, zone_vars, insights,
                   excel_file, cache, data, session_state, alert_counts, pending>>

NextRender == GenerateAlert \/ RenderTeamCard \/ RenderBanner \/ RenderStatusAnalysis

\* Pages drawing the alert of an athlete whose rows may hold text cells.
SpecRender == InitFault /\ [][NextRender]_vars

\* --------------------------------------------- sleep-onset cells as loaded
\* A sleep_onset_time cell as pd.read_excel delivers it: <<>> for an empty
\* cell, else <<kind, hour, minute>>, the kind being the text "HH:MM", the
\* text "HH:MM:SS" (seconds 00) or a datetime.time.
EmptyCell == <<>>
RawOnset(kind, hour, minute) == <<kind, hour, minute>>

\* safe_time_convert: text is parsed with format '%H:%M:%S', and text that
\* does not match raises inside the try, which answers None.
safe_time_convert(raw) ==
    IF Len(raw) = 0 THEN NA
    ELSE IF raw[1] = "HH:MM" THEN NA
    ELSE <<raw[2] * 60 + raw[3]>>

\* The template generator's sleep_onset strings: f"{hour % 24:02d}:{minute}"
\* with the hour from [23, 0, 1] (delay genotypes, late in the window) or
\* from 21..23.
SimulatedDelayHours == {23, 0, 1}
SimulatedHours == {21, 22, 23} \cup SimulatedDelayHours
SimulatedMinutes == {30, 45, 15}
SimulatedOnsets ==
    {RawOnset("HH:MM", h, m) : h \in SimulatedHours, m \in SimulatedMinutes}

\* Onset cells of a workbook: the generator's, the same times written with
\* seconds or stored as times, and an empty cell.
RawOnsets ==
    SimulatedOnsets \cup {EmptyCell}
        \cup {RawOnset(k, h, m) : k \in {"HH:MM:SS", "time"}, h \in SimulatedHours,
                                  m \in SimulatedMinutes \cup {0, 31, 59}}

\* Rows around the circadian rule.
OnsetLatestRows(onset) ==
    [hrv_night : {<<33>>, <<40>>}, resting_hr : {<<63>>}, temp_trend_c : {<<366>>},
     spo2_night : {<<98>>}, deep_sleep_pct : {<<16>>, <<17>>}, rem_sleep_pct : {<<15>>, <<22>>},
     sleep_duration_h : {<<78>>}, resp_rate_night : {<<14>>}, sleep_onset_time : {onset}]
OnsetEarlierRow ==
    [hrv_night |-> <<40>>, resting_hr |-> <<63>>, temp_trend_c |-> <<366>>,
     spo2_night |-> <<98>>, deep_sleep_pct |-> <<21>>, rem_sleep_pct |-> <<22>>,
     sleep_duration_h |-> <<78>>, resp_rate_night |-> <<14>>, sleep_onset_time |-> <<1365>>]

\* A call on a history whose latest onset went through load_data.
InitOnset ==
    /\ AppIdle
    /\ \E a \in Athletes : athlete_id = a.athlete_id /\ genetic_dict = a.genetic_dict
    /\ \E raw \in RawOnsets : \E r \in OnsetLatestRows(safe_time_convert(raw)) :
          df \in {<<r>>, <<OnsetEarlierRow, r>>}
    /\ flags = NoFlags
    /\ alert = NoAlert
    /\ ZoneIdle /\ GenesIdle

SpecOnset == InitOnset /\ [][Next]_vars

\* ------------------------------------------------------------- navigation
\* Athletes of the roster, by number.
MaxAthletes == 10
AthleteIds == 1..MaxAthletes

\* The page a script run draws: `if st.session_state.page == 'home':` the team
\* overview, else the dashboard of aid = st.session_state.athlete_id.
Page(session) ==
    IF session.page = "home"
    THEN [place |-> "team overview", aid |-> <<>>]
    ELSE [place |-> "athlete dashboard", aid |-> session.athlete_id]

InitNav ==
    /\ AlertIdle /\ ZoneIdle /\ GenesIdle
    /\ excel_file = <<>> /\ cache = <<>> /\ data = <<>>
    /\ session_state = InitialSession
    /\ alert_counts = <<>> /\ pending = <<>> /\ rendering = <<>>

\* go_to_athlete(athlete_id), the on_click callback of a card's button.
go_to_athlete(id) ==
    /\ session_state' = [page |-> "athlete", athlete_id |-> <<id>>]
    /\ UNCHANGED <<athlete_id, df, genetic_dict, flags, alert, zone_vars, insights,
                   excel_file, cache, data, alert_counts, pending, rendering>>

\* go_home leaving the selected athlete in place.
go_home_keeps_athlete ==
    /\ session_state' = [session_state EXCEPT !.page = "home"]
    /\ UNCHANGED <<athlete_id, df, genetic_dict, flags, alert, zone_vars, insights,
                   excel_file, cache, data, alert_counts, pending, rendering>>

\* go_home(), the on_click callback of the Back buttons.
go_home ==
    /\ session_state' = [page |-> "home", athlete_id |-> <<>>]
    /\ UNCHANGED <<athlete_id, df, genetic_dict, flags, alert, zone_vars, insights,
                   excel_file, cache, data, alert_counts, pending, rendering>>

\* The rerun after a callback: the script draws the page of the session state.
RunScript ==
    /\ rendering' = Page(session_state)
    /\ UNCHANGED <<athlete_id, df, genetic_dict, flags, alert, zone_vars, insights,
                   excel_file, cache, data, session_state, alert_counts, pending>>

NextNav == (\E id \in AthleteIds : go_to_athlete(id)) \/ go_home \/ RunScript

SpecNav == InitNav /\ [][NextNav]_vars

\* ------------------------------------------------- the alert_counts loop
\* Most athletes in latest_data.
MaxTeam == 3

\* alert_counts as initialised: one counter per key, no "no_data" key.
ZeroCounts ==
    [inflammation |-> 0, circadian |-> 0, nutrition |-> 0, airway |-> 0, green |-> 0,
     error |-> 0]

\* One pass of the loop body leaving an alert type without a key uncounted.
tally_skips_unknown(counts, raised, type) ==
    IF raised THEN [counts EXCEPT !.error = @ + 1]
    ELSE IF type \in DOMAIN counts THEN [counts EXCEPT ![type] = @ + 1]
    ELSE counts

\* One pass of the loop body on alert_counts: an exception before or in
\* generate_alert, or the KeyError of alert_counts[type] for a type without a
\* key, ends in the except branch, which counts an error.
tally(counts, raised, type) ==
    IF raised THEN [counts EXCEPT !.error = @ + 1]
    ELSE IF type \in DOMAIN counts THEN [counts EXCEPT ![type] = @ + 1]
    ELSE [counts EXCEPT !.error = @ + 1]

\* Latest rows giving each kind of alert, and one with a text cell.
QuietRow ==
    [hrv_night |-> <<50>>, resting_hr |-> <<60>>, temp_trend_c |-> <<366>>,
     spo2_night |-> <<98>>, deep_sleep_pct |-> <<21>>, rem_sleep_pct |-> <<22>>,
     sleep_duration_h |-> <<78>>, resp_rate_night |-> <<14>>, sleep_onset_time |-> <<1365>>]
TallyFrames ==
    {<<>>,
     <<QuietRow>>,
     <<[QuietRow EXCEPT !.hrv_night = <<33>>, !.resting_hr = <<71>>,
                        !.temp_trend_c = <<370>>, !.spo2_night = <<94>>]>>,
     <<[QuietRow EXCEPT !.hrv_night = <<33>>, !.deep_sleep_pct = <<16>>,
                        !.sleep_onset_time = <<1411>>]>>,
     <<[QuietRow EXCEPT !.hrv_night = <<33>>, !.rem_sleep_pct = <<15>>]>>,
     <<[QuietRow EXCEPT !.spo2_night = <<94>>, !.resp_rate_night = <<17>>]>>,
     <<[QuietRow EXCEPT !.hrv_night = TEXT]>>}
\* An athlete of latest_data: the frame looked up for it (empty when the id
\* is not in the pivot's index), its genotype map, and whether building the
\* map raises (a genetic_profiles sheet without its gene column).
TallyItems ==
    [df : TallyFrames, genetic_dict : {NoGenes, <<<<"PER3", "long">>>>}, raises : {FALSE}]
        \cup [df : TallyFrames, genetic_dict : {NoGenes}, raises : {TRUE}]

latest_data == data[1]

InitTally ==
    /\ athlete_id = "" /\ df = <<>> /\ genetic_dict = NoGenes
    /\ flags = NoFlags /\ alert = NoAlert /\ ZoneIdle /\ GenesIdle
    /\ excel_file = <<>> /\ cache = <<>>
    /\ session_state = InitialSession
    /\ rendering = <<>>
    /\ \E n \in 0..MaxTeam : \E items \in [1..n -> TallyItems] :
          data = <<items>> /\ pending = items
    /\ alert_counts = ZeroCounts

\* One pass of `for _, row in latest_data.iterrows():`.
CountAlert ==
    /\ pending # <<>>
    /\ LET item == Head(pending)
           result == generate_alert(ToString(Len(latest_data) - Len(pending) + 1),
                                    item.df, item.genetic_dict)
       IN  /\ athlete_id' = ToString(Len(latest_data) - Len(pending) + 1)
           /\ IF item.raises
              THEN UNCHANGED <<df, genetic_dict, alert>>
              ELSE df' = item.df /\ genetic_dict' = item.genetic_dict /\ alert' = result
           /\ alert_counts' = tally(alert_counts, item.raises, result.type)
    /\ pending' = Tail(pending)
    /\ UNCHANGED <<flags, zone_vars, insights, excel_file, cache, data, session_state,
                   rendering>>

NextTally == CountAlert

SpecTally == InitTally /\ [][NextTally]_vars

\* ============================================================== claims
\* The categories an alert record can carry.
AlertTypes == {"inflammation", "circadian", "nutrition", "airway", "green", "no_data", "error"}

\* The call has returned.
Returned == alert # NoAlert
\* The call has returned from a non-empty frame, so the flags were computed.
Evaluated == Returned /\ Len(df) > 0

\* The latest row and the one before it.
Latest == df[Len(df)]
Previous == df[Len(df) - 1]
\* A reading of a row, with the documented default for an absent one.
Reading(row, column, default) == IF row[column] = NA THEN default ELSE row[column][1]

\* C1: generate_alert is total. For every history (empty or not, any readings
\* absent) and every genotype map, the record the call returns carries exactly
\* one of the seven fixed categories.
C1_Totality == Returned => alert.type \in AlertTypes
\* C1 witness: a returned alert for a two-row history with absent readings.
C1_Witness ==
    /\ Returned /\ Len(df) = 2 /\ alert.type \in AlertTypes
    /\ Latest.hrv_night = NA /\ Latest.sleep_onset_time = NA /\ Previous.resting_hr = NA

\* C2: inflammation has top precedence. Whenever hrv_drop, rhr_rise, temp_high
\* and spo2_low all hold for a non-empty history the alert is inflammation,
\* whatever the other flags are.
C2_InflammationFirst ==
    (Evaluated /\ flags.hrv_drop /\ flags.rhr_rise /\ flags.temp_high /\ flags.spo2_low)
        => alert.type = "inflammation"
\* C2 witness: inflammation returned while the circadian and airway conditions
\* hold too.
C2_Witness ==
    /\ Evaluated /\ alert.type = "inflammation"
    /\ flags.deep_low /\ flags.sleep_late /\ flags.resp_high

\* C3: when the inflammation condition fails and hrv_drop, deep_low and
\* sleep_late hold, the alert is circadian, even if the nutrition or airway
\* condition holds as well.
C3_Circadian ==
    (/\ Evaluated
     /\ ~(flags.hrv_drop /\ flags.rhr_rise /\ flags.temp_high /\ flags.spo2_low)
     /\ flags.hrv_drop /\ flags.deep_low /\ flags.sleep_late)
        => alert.type = "circadian"
\* C3 witness: circadian returned while the nutrition and airway conditions hold.
C3_Witness ==
    /\ Evaluated /\ alert.type = "circadian"
    /\ flags.rem_low /\ ~flags.temp_high /\ flags.spo2_low /\ flags.resp_high
    /\ ~flags.sleep_short

InflammationCond == flags.hrv_drop /\ flags.rhr_rise /\ flags.temp_high /\ flags.spo2_low
CircadianCond == flags.hrv_drop /\ flags.deep_low /\ flags.sleep_late
NutritionCond == flags.hrv_drop /\ flags.rem_low /\ ~flags.temp_high
AirwayCond == flags.spo2_low /\ flags.resp_high

\* C4: when neither the inflammation nor the circadian condition holds, the
\* alert is nutrition exactly when hrv_drop and rem_low hold and temp_high does
\* not; with temp_high the alert is never nutrition.
C4_Nutrition ==
    Evaluated =>
        /\ (~InflammationCond /\ ~CircadianCond) =>
               (alert.type = "nutrition" <=> NutritionCond)
        /\ flags.temp_high => alert.type # "nutrition"
\* C4 witness: nutrition returned, and elsewhere hrv_drop and rem_low with a
\* high temperature returning something else; here the first, with the airway
\* condition holding too.
C4_Witness ==
    /\ Evaluated /\ alert.type = "nutrition"
    /\ flags.spo2_low /\ flags.resp_high /\ flags.deep_low

\* C5: when none of the inflammation, circadian and nutrition conditions
\* holds, the alert is airway if spo2_low and resp_high both hold and green
\* otherwise; green is returned only when none of the four conditions holds.
C5_AirwayElseGreen ==
    Evaluated =>
        /\ (~InflammationCond /\ ~CircadianCond /\ ~NutritionCond) =>
               alert.type = (IF AirwayCond THEN "airway" ELSE "green")
        /\ alert.type = "green" =>
               (~InflammationCond /\ ~CircadianCond /\ ~NutritionCond /\ ~AirwayCond)
\* C5 witness: green returned although spo2_low holds (resp_high does not) and
\* hrv_drop holds.
C5_Witness ==
    /\ Evaluated /\ alert.type = "green"
    /\ flags.spo2_low /\ ~flags.resp_high /\ flags.hrv_drop

\* C6: an empty history yields no_data for every athlete and genotype map,
\* and no flag is computed on the way.
C6_EmptyNoData ==
    (Returned /\ Len(df) = 0) => (alert.type = "no_data" /\ flags = NoFlags)
\* C6 witness: no_data returned for an athlete with a non-empty genotype map.
C6_Witness ==
    /\ Returned /\ Len(df) = 0 /\ alert.type = "no_data" /\ genetic_dict # NoGenes

\* The readings the trend tests compare, defaults substituted.
LatestHrv == Reading(Latest, "hrv_night", DEFAULT_HRV)
LatestRhr == Reading(Latest, "resting_hr", DEFAULT_RHR)
PreviousHrv == Reading(Previous, "hrv_night", DEFAULT_HRV)
PreviousRhr == Reading(Previous, "resting_hr", DEFAULT_RHR)

\* C7 as claimed: with a previous HRV of zero or less, hrv_drop is true exactly
\* when the latest HRV is below 40, and with a previous RHR of zero or less,
\* rhr_rise is true exactly when the latest RHR is above 70.
C7_AbsoluteFallback ==
    (Evaluated /\ Len(df) >= 2) =>
        /\ PreviousHrv <= 0 => (flags.hrv_drop <=> LatestHrv < 40)
        /\ PreviousRhr <= 0 => (flags.rhr_rise <=> LatestRhr > 70)
\* C7 as amended: with a previous HRV of zero or less hrv_drop is false, and
\* with a previous RHR of zero or less rhr_rise is false; the absolute
\* thresholds are not consulted.
C7_NonPositivePreviousClearsFlag ==
    (Evaluated /\ Len(df) >= 2) =>
        /\ PreviousHrv <= 0 => ~flags.hrv_drop
        /\ PreviousRhr <= 0 => ~flags.rhr_rise
\* C7 witness: previous HRV 0 and RHR 0, latest HRV 33 (< 40) and RHR 71 (> 70),
\* and neither flag set.
C7_Witness ==
    /\ Evaluated /\ Len(df) = 2
    /\ Previous.hrv_night = <<0>> /\ Latest.hrv_night = <<33>> /\ ~flags.hrv_drop
    /\ Previous.resting_hr = <<0>> /\ Latest.resting_hr = <<71>> /\ ~flags.rhr_rise

\* C8: with at least two observations and positive previous values, hrv_drop is
\* true exactly when (prev - latest) / prev > 0.15 and rhr_rise exactly when
\* (latest - prev) / prev > 0.05, both strict; the absolute thresholds 40 and
\* 70 play no part.
C8_RelativeTrend ==
    (Evaluated /\ Len(df) >= 2) =>
        /\ PreviousHrv > 0 =>
               (flags.hrv_drop <=> (PreviousHrv - LatestHrv) * 100 > 15 * PreviousHrv)
        /\ PreviousRhr > 0 =>
               (flags.rhr_rise <=> (LatestRhr - PreviousRhr) * 100 > 5 * PreviousRhr)
\* C8 witness: a drop of exactly 15% to a value below 40 (40 -> 34) and a rise
\* of exactly 5% (60 -> 63), neither flag set.
C8_Witness ==
    /\ Evaluated /\ Len(df) = 2
    /\ Previous.hrv_night = <<40>> /\ Latest.hrv_night = <<34>> /\ ~flags.hrv_drop
    /\ Previous.resting_hr = NA /\ Latest.resting_hr = <<63>> /\ ~flags.rhr_rise

\* C9: with exactly one observation, hrv_drop is true exactly when the latest
\* HRV is below 40 and rhr_rise exactly when the latest RHR is above 70.
C9_SingleObservation ==
    (Evaluated /\ Len(df) = 1) =>
        /\ flags.hrv_drop <=> LatestHrv < 40
        /\ flags.rhr_rise <=> LatestRhr > 70
\* C9 witness: one observation with HRV 40 (not below 40) and RHR 71.
C9_Witness ==
    /\ Evaluated /\ Len(df) = 1
    /\ Latest.hrv_night = <<40>> /\ ~flags.hrv_drop
    /\ Latest.resting_hr = <<71>> /\ flags.rhr_rise

\* C10: the point-in-time flags and their boundaries, each a function of the
\* latest observation alone: temp_high iff temperature >= 37.0, spo2_low iff
\* SpO2 <= 94, resp_high iff respiratory rate >= 17, deep_low iff deep sleep
\* < 17, rem_low iff REM sleep < 16.
C10_PointInTimeFlags ==
    Evaluated =>
        /\ flags.temp_high <=> Reading(Latest, "temp_trend_c", DEFAULT_TEMP) >= 370
        /\ flags.spo2_low <=> Reading(Latest, "spo2_night", DEFAULT_SPO2) <= 94
        /\ flags.resp_high <=> Reading(Latest, "resp_rate_night", DEFAULT_RESP) >= 17
        /\ flags.deep_low <=> Reading(Latest, "deep_sleep_pct", DEFAULT_DEEP) < 17
        /\ flags.rem_low <=> Reading(Latest, "rem_sleep_pct", DEFAULT_REM) < 16
\* C10 witness: every reading on its boundary, in a two-row history: 37.0, 94
\* and 17/min set their flags, 17% deep and 16% REM do not.
C10_Witness ==
    /\ Evaluated /\ Len(df) = 2
    /\ Latest.temp_trend_c = <<370>> /\ flags.temp_high
    /\ Latest.spo2_night = <<94>> /\ flags.spo2_low
    /\ Latest.resp_rate_night = <<17>> /\ flags.resp_high
    /\ Latest.deep_sleep_pct = <<17>> /\ ~flags.deep_low
    /\ Latest.rem_sleep_pct = <<16>> /\ ~flags.rem_low

\* C11: sleep_late is true exactly when the latest observation has a sleep-onset
\* time and that time is strictly later than 23:30; without an onset time
\* sleep_late is false and the alert is never circadian.
C11_SleepLate ==
    Evaluated =>
        /\ flags.sleep_late <=>
               (Latest.sleep_onset_time # NA /\ Latest.sleep_onset_time[1] > 23 * 60 + 30)
        /\ Latest.sleep_onset_time = NA => (~flags.sleep_late /\ alert.type # "circadian")
\* C11 witness: an onset of exactly 23:30 with hrv_drop and deep_low, which is
\* not late and does not give circadian.
C11_Witness ==
    /\ Evaluated /\ Latest.sleep_onset_time = <<1410>>
    /\ flags.hrv_drop /\ flags.deep_low /\ ~flags.sleep_late /\ alert.type # "circadian"

\* The documented defaults of the metric fields.
DocumentedDefault ==
    [hrv_night |-> 50, resting_hr |-> 60, temp_trend_c |-> 365, spo2_night |-> 97,
     deep_sleep_pct |-> 20, rem_sleep_pct |-> 20, sleep_duration_h |-> 80,
     resp_rate_night |-> 15]
\* The frame with every removed or absent metric field of the latest
\* observation set to its documented default (a column the sheet lacks is set
\* in every row; the onset time has no default and stays absent).
WithDefaults(frame) ==
    [i \in 1 .. Len(frame) |->
        [k \in MetricColumns |->
            IF k \notin DOMAIN frame[i]
            THEN IF k \in DOMAIN DocumentedDefault THEN <<DocumentedDefault[k]>> ELSE NA
            ELSE IF i = Len(frame) /\ frame[i][k] = NA /\ k \in DOMAIN DocumentedDefault
                 THEN <<DocumentedDefault[k]>>
                 ELSE frame[i][k]]]

\* C12: for a non-empty history, a metric field removed from or absent in the
\* latest observation does not make the call fail, and the alert is the one
\* returned for the same history with the field set to its documented default.
C12_MissingMetricDefault ==
    Evaluated =>
        /\ alert.type # "error"
        /\ alert = generate_alert(athlete_id, WithDefaults(df), genetic_dict)
\* C12 witness: a sheet without the temperature column and a latest row with
\* no HRV reading, yielding airway.
C12_Witness ==
    /\ Evaluated /\ "temp_trend_c" \notin DOMAIN Latest
    /\ Latest.hrv_night = NA /\ alert.type = "airway"

\* The readings every evaluation compares with a threshold once the trend
\* tests have passed.
PointColumns ==
    {"temp_trend_c", "spo2_night", "deep_sleep_pct", "rem_sleep_pct", "sleep_duration_h",
     "resp_rate_night"}

\* C13: a fault raised while a non-empty history is evaluated is caught and
\* reported as an alert of category error, whose cause embeds at most the first
\* 50 characters of the fault's description.
C13_ErrorBoundary ==
    Evaluated =>
        /\ alert.type \in AlertTypes
        /\ (\E k \in PointColumns : IsText(Latest[k])) => alert.type = "error"
        /\ alert.type = "error" =>
               /\ Len(alert.cause) <= 50
               /\ \E kind \in {"gt_str_int", "lt_str_int", "le_str_int", "ge_str_int",
                               "lt_str_float", "ge_str_float", "sub_int_str", "sub_str_int"} :
                     LET d == fault_description(kind)
                     IN  /\ Len(alert.cause) <= Len(d)
                         /\ alert.cause = SubSeq(d, 1, Len(alert.cause))
                         /\ Len(alert.cause) = 50 \/ Len(alert.cause) = Len(d)
\* C13 witness: a text cell in the temperature column; the 57-character
\* description is cut to 50.
C13_Witness ==
    /\ Evaluated /\ Len(df) = 1 /\ IsText(Latest.temp_trend_c) /\ ~IsText(Latest.hrv_night)
    /\ ~IsText(Latest.resting_hr) /\ alert.type = "error" /\ Len(alert.cause) = 50

\* ------------------------------------------------------------- C14 .. C18
Classified == status # NoStatus
Configured == \E i \in DOMAIN thresholds : thresholds[i].metric_name = metric_name
ConfigOf == thresholds[CHOOSE i \in DOMAIN thresholds :
                           /\ thresholds[i].metric_name = metric_name
                           /\ \A j \in 1..(i - 1) : thresholds[j].metric_name # metric_name]
\* A bound is defined when the sheet has its column and an entry in it.
Defined(row, column) == column \in DOMAIN row /\ row[column] # NA
\* The value lies in the range, both of whose bounds are defined.
Within(row, low, high) ==
    /\ Defined(row, low) /\ Defined(row, high)
    /\ row[low][1] <= value[1] /\ value[1] <= row[high][1]
InCritical(row) == Within(row, "red_low", "red_high") \/ Within(row, "red_low2", "red_high2")
InCaution(row) ==
    Within(row, "yellow_low", "yellow_high") \/ Within(row, "yellow_low2", "yellow_high2")
InOptimal(row) == Within(row, "green_low", "green_high")
\* Some range of the row has a bound that is not defined.
HasAbsentBound(row) ==
    \E c \in {"green_low", "green_high", "yellow_low", "yellow_high", "red_low", "red_high",
              "yellow_low2", "yellow_high2", "red_low2", "red_high2"} : ~Defined(row, c)
\* The band of the value when only ranges with both bounds defined count.
BandOverPresentRanges(row) ==
    IF InCritical(row) THEN "Red"
    ELSE IF InCaution(row) THEN "Yellow"
    ELSE IF InOptimal(row) THEN "Green"
    ELSE "Unknown"

\* C14: for a configured metric and a present value, a value inside any
\* present critical range is classified Red whatever other ranges hold it,
\* and otherwise a value inside any present caution range is classified
\* Yellow even if the optimal range holds it too.
C14_ZonePrecedence ==
    (Classified /\ value # NA /\ Configured) =>
        /\ InCritical(ConfigOf) => status = "Red"
        /\ (~InCritical(ConfigOf) /\ InCaution(ConfigOf)) => status = "Yellow"

\* C15: an absent value is classified No Data, configured metric or not, and
\* a present value of a metric without a row is classified No Config; the
\* table's ranges play no part in either (not even a sheet that lacks
\* columns changes the answer).
C15_DegradedOutcomes ==
    Classified =>
        /\ value = NA => status = "No Data"
        /\ (value # NA /\ ~Configured) => status = "No Config"
C15_Witness ==
    /\ Classified /\ value = NA /\ ~Configured /\ status = "No Data"
    /\ "red_high2" \notin DOMAIN thresholds[1] /\ thresholds[1].red_low2 # NA

\* C16: a range with an absent bound matches nothing and never yields the
\* Error status: the value is classified by the remaining ranges and bands.
C16_AbsentBoundsSkipped ==
    (Classified /\ value # NA /\ Configured /\ HasAbsentBound(ConfigOf)) =>
        /\ status # "Error"
        /\ status = BandOverPresentRanges(ConfigOf)

RemName == <<"r", "e", "m", "_", "s", "l", "e", "e", "p", "_", "p", "c", "t">>
\* C17: a value in the secondary caution range and in no critical range is
\* classified Yellow; against the template's REM row 28 is Yellow and 31 is
\* Red.
C17_SecondaryBands ==
    (Classified /\ value # NA /\ Configured) =>
        /\ (Within(ConfigOf, "yellow_low2", "yellow_high2") /\ ~InCritical(ConfigOf))
               => status = "Yellow"
        /\ (thresholds = metrics_config /\ metric_name = RemName /\ value = <<28>>)
               => status = "Yellow"
        /\ (thresholds = metrics_config /\ metric_name = RemName /\ value = <<31>>)
               => status = "Red"

\* C18: every metric card of the dashboard, looked up in the template
\* generator's table (which has a row for each displayed metric), resolves
\* to its row: its status is a band or Unknown, not No Config.
C18_NormalizedLookup ==
    (Classified /\ thresholds = metrics_config) =>
        /\ \E m \in metrics_map :
              /\ metric_name = title(replace_underscores(m.chars))
              /\ \E i \in DOMAIN metrics_config : metrics_config[i].metric_name = m.chars
        /\ status \in {"Red", "Yellow", "Green", "Unknown"}

\* ------------------------------------------------------------- C19 .. C20
Annotated == insights.done
\* The gene an entry is about, and the genotypes an entry may be emitted for.
EntryGene(entry) ==
    IF entry.gene \in {"PER3 (Long variant)", "PER3 (Short variant)"} THEN "PER3"
    ELSE IF entry.gene = "CLOCK (AA genotype)" THEN "CLOCK"
    ELSE IF entry.gene \in {"ACTN3 (XX genotype)", "ACTN3 (RR genotype)"} THEN "ACTN3"
    ELSE "other"
GeneRank(gene) == IF gene = "PER3" THEN 1 ELSE IF gene = "CLOCK" THEN 2 ELSE 3
Recognized(gene) ==
    IF gene = "PER3" THEN {"long", "short"}
    ELSE IF gene = "CLOCK" THEN {"AA"}
    ELSE IF gene = "ACTN3" THEN {"XX", "RR"}
    ELSE {}

\* C19: the annotation list has at most one entry per recognized gene, in
\* the order PER3, CLOCK, ACTN3 whatever the map's insertion order; a gene has
\* an entry only if the map gives it a recognized genotype, and nothing else
\* (other genotypes, other genes, absent genes) adds an entry.
C19_GeneticAnnotation ==
    Annotated =>
        LET list == insights.list
        IN  /\ \A i \in DOMAIN list : EntryGene(list[i]) \in {"PER3", "CLOCK", "ACTN3"}
            /\ \A i, j \in DOMAIN list :
                  i < j => GeneRank(EntryGene(list[i])) < GeneRank(EntryGene(list[j]))
            /\ \A i \in DOMAIN list :
                  \E k \in DOMAIN genetic_dict :
                      /\ genetic_dict[k][1] = EntryGene(list[i])
                      /\ genetic_dict[k][2] \in Recognized(EntryGene(list[i]))
            /\ Len(list) <= Cardinality({g \in GenesIn(genetic_dict) :
                                            dict_get(genetic_dict, g) \in Recognized(g)})
C19_Witness ==
    /\ Annotated
    /\ genetic_dict = <<<<"ACTN3", "RR">>, <<"COMT", "GG">>, <<"CLOCK", "AG">>,
                        <<"PER3", "short">>>>
    /\ Len(insights.list) = 2
    /\ insights.list[1].gene = "PER3 (Short variant)"
    /\ insights.list[2].gene = "ACTN3 (RR genotype)"

\* C20: for a fixed history generate_alert returns the same alert whatever
\* athlete id and genotype map it is given: the alert returned for one
\* athlete is the one the call returns for the other athlete's id and
\* genotype map on the same history.
C20_AlertIgnoresGenes ==
    Returned =>
        \A a \in Athletes :
            a.athlete_id # athlete_id => alert = generate_alert(a.athlete_id, df, a.genetic_dict)
C20_Witness ==
    /\ Returned /\ alert.type = "circadian"
    /\ dict_get(genetic_dict, "PER3") = "long"
    /\ alert = generate_alert("ATH001", df, NoGenes)

\* ------------------------------------------------------------- C21 .. C26
\* C21: whatever reruns and changes of the workbook came before, the data a
\* load_data call returns is the current content of the workbook, never a
\* content cached before the last change.
C21_CacheFresh ==
    [][LoadData =>
          (data' # <<>> => (excel_file # <<>> /\ data' = <<excel_file[1].content>>))]_vars

\* C22: wherever an alert is drawn (team card, dashboard banner, status
\* analysis), an alert of type error or no_data is drawn neither in the style
\* of a green alert nor in the style of a risk category.
C22_DegradedDrawnDistinctly ==
    (rendering # <<>> /\ alert.type \in {"error", "no_data"}) =>
        /\ rendering.style # Drawn(rendering.place, "green").style
        /\ \A t \in RiskTypes : rendering.style # Drawn(rendering.place, t).style

\* C23: the circadian branch is never taken with an absent sleep-onset time
\* (absent cell or absent column), so a circadian cause always carries the
\* onset as HH:MM and never the text "Late".
C23_LateUnreachable ==
    (Returned /\ alert.type = "circadian") =>
        /\ sleep_onset_time(df) # NA
        /\ Len(alert.cause[2]) = 2
        /\ alert.cause[2] = <<sleep_onset_time(df)[1] \div 60, sleep_onset_time(df)[1] % 60>>
C23_Witness ==
    /\ Returned /\ alert.type = "circadian"
    /\ "temp_trend_c" \notin Columns(df)
    /\ alert.cause[2] = <<23, 31>>

\* The call's answer had the latest row carried the given onset.
WithOnset(onset) == [df EXCEPT ![Len(df)].sleep_onset_time = onset]
\* C26: an onset from 00:00 up to and including 23:30 never sets sleep_late;
\* a circadian alert comes only from an onset after 23:30 (and before
\* midnight); and the generator's delayed bedtimes at hours 0 and 1, as
\* loaded or read as the times they spell, cannot give circadian.
C26_PostMidnightNotLate ==
    Evaluated =>
        /\ (Latest.sleep_onset_time # NA /\ Latest.sleep_onset_time[1] <= REF_TIME)
               => (~flags.sleep_late /\ alert.type # "circadian")
        /\ alert.type = "circadian"
               => (/\ Latest.sleep_onset_time # NA
                   /\ Latest.sleep_onset_time[1] > 23 * 60 + 30
                   /\ Latest.sleep_onset_time[1] <= 23 * 60 + 59)
        /\ \A raw \in SimulatedOnsets :
              raw[2] \in {0, 1} =>
                  /\ generate_alert(athlete_id, WithOnset(safe_time_convert(raw)),
                                    genetic_dict).type # "circadian"
                  /\ generate_alert(athlete_id, WithOnset(<<raw[2] * 60 + raw[3]>>),
                                    genetic_dict).type # "circadian"
C26_Witness ==
    /\ Evaluated
    /\ Latest.sleep_onset_time = <<1 * 60 + 45>>
    /\ flags.hrv_drop /\ flags.deep_low /\ ~flags.sleep_late
    /\ dict_get(genetic_dict, "PER3") = "long"
    /\ alert.type # "circadian"

\* C24: from page = home, athlete_id = None, after any sequence of
\* go_to_athlete(id) and go_home(), page is home or athlete, athlete_id is
\* None exactly when page is home, and a go_to_athlete(id) leaves id selected.
C24_Navigation ==
    /\ [](/\ session_state.page \in {"home", "athlete"}
          /\ session_state.athlete_id = <<>> <=> session_state.page = "home"
          /\ session_state.athlete_id # <<>> =>
                 \E id \in AthleteIds : session_state.athlete_id = <<id>>)
    /\ [][\A id \in AthleteIds :
              go_to_athlete(id) => (/\ session_state'.page = "athlete"
                                    /\ session_state'.athlete_id = <<id>>)]_vars
C24_Witness ==
    /\ session_state = [page |-> "home", athlete_id |-> <<>>]
    /\ rendering = [place |-> "athlete dashboard", aid |-> <<2>>]

CountsSum ==
    alert_counts.inflammation + alert_counts.circadian + alert_counts.nutrition
        + alert_counts.airway + alert_counts.green + alert_counts.error
\* C25: every pass of the counting loop adds one to exactly one counter, to
\* error when the alert's type is no_data or the pass raised, so the counters
\* add up to the athletes counted so far and, after the loop, to the number
\* of athletes in latest_data.
C25_TallyConservation ==
    /\ [](/\ CountsSum + Len(pending) = Len(latest_data)
          /\ pending = <<>> => CountsSum = Len(latest_data))
    /\ [][CountAlert =>
            /\ \E k \in DOMAIN alert_counts :
                  alert_counts' = [alert_counts EXCEPT ![k] = @ + 1]
            /\ (Head(pending).raises \/ Len(Head(pending).df) = 0)
                   => alert_counts'.error = alert_counts.error + 1]_vars
C25_Witness ==
    /\ pending = <<>> /\ Len(latest_data) = 3
    /\ latest_data[1].raises
    /\ Len(latest_data[2].df) = 0 /\ ~latest_data[2].raises
    /\ alert.type = "circadian"
    /\ alert_counts = [ZeroCounts EXCEPT !.error = 2, !.circadian = 1]

====
